---------------------------- MODULE Spec2Model ----------------------------
(***************************************************************************)
(* DriveAssist dashboard: the App router with its isAuthenticated flag,    *)
(* the Login and Home pages, the FeedbackProvider (feedbackHistory, its    *)
(* localStorage copy, the event-stream handler) and the Brake Checking     *)
(* and Feedback History pages that read and change the history.            *)
(*                                                                         *)
(* JavaScript values are tagged tuples; an object is a function from its   *)
(* own keys to values, so reading a key the object lacks gives Undefined. *)
(***************************************************************************)
EXTENDS Integers, Sequences, FiniteSets, TLC

VARIABLES
    isAuthenticated,     \* App: useState(false)
    path,                \* router location, after the redirects have settled
    feedbackHistory,     \* FeedbackProvider: array of entries, newest first
    storage,             \* localStorage item 'driverAssistFeedback'
    clock,               \* Date.now(), in milliseconds since the page was first opened
    selectedModules,     \* FeedbackHistory: module filter
    selectedSeverities,  \* FeedbackHistory: severity filter
    last,                \* the handler that ran last and its input
    nAdded,              \* entries added so far (bounded by MaxAdds)
    nDeleted,            \* deleteFeedback calls so far (bounded by MaxDeletes)
    moduleStates,        \* FeedbackProvider: per-module lists of recent events
    moduleStorage,       \* localStorage item 'driverAssistModuleStates'
    received,            \* the entries onmessage has made, newest first (history variable)
    brakePage,           \* BrakeChecking: the speed it shows while it is mounted
    connection,          \* FeedbackProvider: isConnected, connectionError, the EventSource
    lanePage,            \* LaneChangeDetection (the simulation): currentLane and events
    brakeSim,            \* BrakeChecking (the simulation): speed and events
    signalPage,          \* RoadSignalMonitoring: currentSignal, the interval and the timeouts
    buffer,              \* inference pipeline: Sliding Window Buffer
    policy,              \* inference pipeline: Decision Policy
    controller           \* inference pipeline: Stream Controller

vars == <<isAuthenticated, path, feedbackHistory, storage, clock,
          selectedModules, selectedSeverities, last, nAdded, nDeleted,
          moduleStates, moduleStorage, received, brakePage, connection,
          lanePage, brakeSim, signalPage, buffer, policy, controller>>

appVars == <<isAuthenticated, path>>
providerVars == <<feedbackHistory, storage, clock, nAdded, nDeleted>>
filterVars == <<selectedModules, selectedSeverities>>
moduleVars == <<moduleStates, moduleStorage>>
pipelineVars == <<buffer, policy, controller>>
simVars == <<lanePage, brakeSim>>
\* what the handlers of the dashboard's pages never touch
restVars == <<brakePage, connection, signalPage, simVars, pipelineVars>>

-----------------------------------------------------------------------------
(* Bounds of the model *)

MaxAdds == 2
MaxDeletes == 1

-----------------------------------------------------------------------------
(* JavaScript values *)

Undefined == <<"undefined">>
Null == <<"null">>
Num(n) == <<"number", n>>
Str(s) == <<"string", s>>
\* new Date(ms).toISOString(): a non-empty string that determines ms
Iso(ms) == <<"isostring", ms>>
Bool(b) == <<"boolean", b>>
\* the number t / 10, for a t that is no multiple of 10
Tenths(t) == <<"tenths", t>>
Obj(o) == <<"object", o>>

Falsy == {Undefined, Null, Num(0), Str(""), Bool(FALSE)}
Truthy(v) == v \notin Falsy

\* a || b
Or(a, b) == IF Truthy(a) THEN a ELSE b

\* o.k
Get(o, k) == IF k \in DOMAIN o THEN o[k] ELSE Undefined

\* {...a, ...b}: b's keys override a's
Spread(a, b) ==
    [k \in (DOMAIN a) \cup (DOMAIN b) |-> IF k \in DOMAIN b THEN b[k] ELSE a[k]]

EmptyObject == [k \in {} |-> Undefined]

\* Math.round(v) of a number: halves go up
MathRound(v) == IF v[1] = "tenths" THEN Num((v[2] + 5) \div 10) ELSE v

\* array.includes(x)
Includes(s, x) == \E i \in 1..Len(s) : s[i] = x

\* array.slice(0, n)
Slice(s, n) == SubSeq(s, 1, IF Len(s) < n THEN Len(s) ELSE n)

Range(s) == {s[i] : i \in 1..Len(s)}


-----------------------------------------------------------------------------
(* App: the routes *)

ProtectedRoutes ==
    {"/home", "/brake-checking", "/road-signal-monitoring",
     "/lane-change-detection", "/feedback-history"}

Urls == ProtectedRoutes \cup {"/login", "/"}

Page(name) == [kind |-> "page", to |-> name]
Redirect(to) == [kind |-> "redirect", to |-> to]

\* Element with the /home route left unguarded
ElementHomeOpen(url, auth) ==
    CASE url = "/login" -> IF auth THEN Redirect("/home") ELSE Page("/login")
      [] url = "/home" -> Page(url)
      [] url \in ProtectedRoutes \ {"/home"} ->
            IF auth THEN Page(url) ELSE Redirect("/login")
      [] url = "/" -> Redirect("/login")

\* The element the <Route> of `url` renders, given isAuthenticated
Element(url, auth) ==
    CASE url = "/login" -> IF auth THEN Redirect("/home") ELSE Page("/login")
      [] url \in ProtectedRoutes -> IF auth THEN Page(url) ELSE Redirect("/login")
      [] url = "/" -> Redirect("/login")

\* <Navigate to=...> replaces the location until a page is rendered
RECURSIVE Settle(_, _)
Settle(url, auth) ==
    IF Element(url, auth).kind = "page" THEN url
    ELSE Settle(Element(url, auth).to, auth)

-----------------------------------------------------------------------------
(* FeedbackHistory page: the filters *)

InitialModules == <<"Brake Checking", "Speed Monitoring", "Lane Change Detection">>
InitialSeverities == <<"low", "moderate", "high">>

-----------------------------------------------------------------------------
(* FeedbackContext: the data *)

\* Dummy feedback data for initial demonstration; `now` is Date.now() when the
\* module is evaluated
DummyFeedback(now) ==
    << [id |-> Num(1700000001), timestamp |-> Iso(now - 3600000 * 2),
        module |-> Str("Brake Checking"), eventType |-> Str("hard"),
        message |-> Str("HARD BRAKING DETECTED at 45 mph"),
        speed |-> Num(45), force |-> Num(85), severity |-> Str("high")],
       [id |-> Num(1700000002), timestamp |-> Iso(now - 3600000 * 4),
        module |-> Str("Speed Monitoring"), eventType |-> Str("Red Light"),
        message |-> Str("Red light"), action |-> Str("STOP"),
        distance |-> Num(120), severity |-> Str("moderate")],
       [id |-> Num(1700000003), timestamp |-> Iso(now - 3600000 * 6),
        module |-> Str("Lane Change Detection"), eventType |-> Str("Center to Right"),
        message |-> Str("Lane change WITHOUT signal"), signalUsed |-> Bool(FALSE),
        safetyScore |-> Num(35), severity |-> Str("high")],
       [id |-> Num(1700000004), timestamp |-> Iso(now - 3600000 * 8),
        module |-> Str("Brake Checking"), eventType |-> Str("moderate"),
        message |-> Str("Moderate braking at 55 mph"),
        speed |-> Num(55), force |-> Num(60), severity |-> Str("moderate")],
       [id |-> Num(1700000005), timestamp |-> Iso(now - 3600000 * 10),
        module |-> Str("Speed Monitoring"), eventType |-> Str("Stop Sign"),
        message |-> Str("Stop sign ahead"), action |-> Str("STOP"),
        distance |-> Num(85), severity |-> Str("high")],
       [id |-> Num(1700000006), timestamp |-> Iso(now - 3600000 * 12),
        module |-> Str("Lane Change Detection"), eventType |-> Str("Left to Center"),
        message |-> Str("Safe lane change"), signalUsed |-> Bool(TRUE),
        safetyScore |-> Num(92), severity |-> Str("low")],
       [id |-> Num(1700000007), timestamp |-> Iso(now - 3600000 * 14),
        module |-> Str("Brake Checking"), eventType |-> Str("light"),
        message |-> Str("Gentle braking at 30 mph"),
        speed |-> Num(30), force |-> Num(25), severity |-> Str("low")],
       [id |-> Num(1700000008), timestamp |-> Iso(now - 3600000 * 16),
        module |-> Str("Speed Monitoring"), eventType |-> Str("School Zone"),
        message |-> Str("School zone ahead"), action |-> Str("CAUTION"),
        distance |-> Num(200), severity |-> Str("low")] >>

\* The data of the messages the event stream can deliver (event.data), as the
\* result JSON.parse gives for it: an object, null, or a SyntaxError
Parsed(o) == [kind |-> "object", obj |-> o]
ParsedNull == [kind |-> "null", obj |-> EmptyObject]
SyntaxError == [kind |-> "error", obj |-> EmptyObject]

EventData ==
    << Parsed([module |-> Str("Brake Checking"), eventType |-> Str("hard"),
               force |-> Num(85), speed |-> Num(55), severity |-> Str("high"),
               message |-> Str("HARD BRAKING DETECTED at 55 mph")]),
       Parsed([id |-> Num(7), timestamp |-> Iso(0), type |-> Str("gps_status"),
               message |-> Str("No GPS fix")]),
       ParsedNull,
       SyntaxError,
       Parsed([module |-> Str("Speed Monitoring"), type |-> Str("gps_status"),
               gps_fix |-> Bool(FALSE), severity |-> Str("low"),
               message |-> Str("No GPS fix - waiting for satellites")]),
       Parsed([module |-> Str("Speed Monitoring"), type |-> Str("speed_update"),
               speed_mph |-> Num(45), speed_kph |-> Tenths(725),
               gps_fix |-> Bool(TRUE), severity |-> Str("low"),
               message |-> Str("Current speed: 45 mph (73 km/h)")]),
       Parsed([module |-> Str("Speed Monitoring"), type |-> Str("speed_update"),
               speed_mph |-> Num(0), speed_kph |-> Num(0),
               gps_fix |-> Bool(TRUE), severity |-> Str("low"),
               message |-> Str("Current speed: 0 mph (0 km/h)")]),
       Parsed([module |-> Str("Speed Monitoring"), type |-> Str("speed_update"),
               speed_mph |-> Tenths(126), speed_kph |-> Tenths(203),
               gps_fix |-> Bool(TRUE), severity |-> Str("low"),
               message |-> Str("Current speed: 13 mph (20 km/h)")]) >>

\* the messages of a drive without Speed Monitoring events
DashboardData ==
    {d \in 1..Len(EventData) : Get(EventData[d].obj, "module") # Str("Speed Monitoring")}

\* JSON.parse(event.data)
JSONParseEvent(d) == EventData[d]

\* StringifyEntry leaving out every falsy value, not only undefined
StringifyEntryTruthy(e) == {<<k, e[k]>> : k \in {f \in DOMAIN e : Truthy(e[f])}}

\* JSON.stringify of one entry: the "key":value members of the object; a property
\* whose value is undefined is left out
StringifyEntry(e) == {<<k, e[k]>> : k \in {f \in DOMAIN e : e[f] # Undefined}}

\* JSON.stringify(feedbackHistory)
Stringify(history) == [i \in 1..Len(history) |-> StringifyEntry(history[i])]

\* JSON.parse of one object: its members become its own properties
ParseEntry(members) ==
    [k \in {m[1] : m \in members} |-> (CHOOSE m \in members : m[1] = k)[2]]

\* JSON.parse(saved)
JSONParse(text) == [i \in 1..Len(text) |-> ParseEntry(text[i])]

NoItem == [has |-> FALSE, text |-> <<>>]
Item(text) == [has |-> TRUE, text |-> text]

\* useState initialiser of feedbackHistory
LoadHistory(saved, now) ==
    IF saved.has THEN JSONParse(saved.text) ELSE DummyFeedback(now)

\* the persistence effect: localStorage.setItem('driverAssistFeedback', ...)
Persist(history) == Item(Stringify(history))

\* newFeedback of eventSource.onmessage
MessageFeedback(data, now) ==
    Spread([id |-> Or(Get(data, "id"), Num(now)),
            timestamp |-> Or(Get(data, "timestamp"), Iso(now))],
           data)

\* newFeedback of addFeedback
NewFeedback(feedback, now) ==
    Spread([id |-> Num(now), timestamp |-> Iso(now)], feedback)

\* the values Date.now() can return when it last returned `c`
Nows(c) == {c, c + 1}

\* OnMessageHistory adding the entry at the end of the array
OnMessageHistoryAtEnd(d, now, history) ==
    IF JSONParseEvent(d).kind = "object"
    THEN history \o <<MessageFeedback(JSONParseEvent(d).obj, now)>>
    ELSE history

\* what eventSource.onmessage makes of feedbackHistory for event.data = d: a
\* SyntaxError of JSON.parse and the TypeError of reading null.id are both caught
\* OnMessageHistory losing the history when JSON.parse throws
OnMessageHistoryLostOnError(d, now, history) ==
    IF JSONParseEvent(d).kind = "object"
    THEN <<MessageFeedback(JSONParseEvent(d).obj, now)>> \o history
    ELSE IF JSONParseEvent(d).kind = "error" THEN <<>> ELSE history

OnMessageHistory(d, now, history) ==
    IF JSONParseEvent(d).kind = "object"
    THEN <<MessageFeedback(JSONParseEvent(d).obj, now)>> \o history
    ELSE history

\* addFeedback(feedback)
AddFeedback(feedback, now, history) == <<NewFeedback(feedback, now)>> \o history

\* deleteFeedback(id)
DeleteFeedback(id, history) == SelectSeq(history, LAMBDA item : Get(item, "id") # id)

\* ClearHistoryStorage without the persistence effect after removeItem
ClearHistoryStorageRemoved == NoItem

\* localStorage item after clearHistory: removeItem runs in the handler, the
\* persistence effect runs after the render that follows it
ClearHistoryStorage == Persist(<<>>)

\* Keep last 10 events for each module
ModuleLimit == 10

\* useState initialiser of moduleStates when nothing is saved
InitialModuleStates ==
    [m \in {"Brake Checking", "Speed Monitoring", "Lane Change Detection"} |-> <<>>]

\* JSON.stringify(moduleStates), JSON.parse(saved)
StringifyModules(states) == [m \in DOMAIN states |-> Stringify(states[m])]
ParseModules(text) == [m \in DOMAIN text |-> JSONParse(text[m])]

\* useState initialiser of moduleStates
LoadModules(saved) ==
    IF saved.has THEN ParseModules(saved.text) ELSE InitialModuleStates

\* the persistence effect: localStorage.setItem('driverAssistModuleStates', ...)
PersistModules(states) == Item(StringifyModules(states))

\* prev[moduleName] || []
ModuleEvents(states, m) == IF m \in DOMAIN states THEN states[m] ELSE <<>>

\* OnMessageModules without the cut to the last 10 events
OnMessageModulesUncut(d, now, states) ==
    IF JSONParseEvent(d).kind = "object" /\ Truthy(Get(JSONParseEvent(d).obj, "module"))
    THEN LET m == Get(JSONParseEvent(d).obj, "module")[2]
         IN  [k \in DOMAIN states \cup {m} |->
                 IF k = m
                 THEN <<MessageFeedback(JSONParseEvent(d).obj, now)>>
                         \o ModuleEvents(states, m)
                 ELSE states[k]]
    ELSE states

\* what eventSource.onmessage makes of moduleStates for event.data = d
OnMessageModules(d, now, states) ==
    IF JSONParseEvent(d).kind = "object" /\ Truthy(Get(JSONParseEvent(d).obj, "module"))
    THEN LET m == Get(JSONParseEvent(d).obj, "module")[2]
         IN  [k \in DOMAIN states \cup {m} |->
                 IF k = m
                 THEN Slice(<<MessageFeedback(JSONParseEvent(d).obj, now)>>
                               \o ModuleEvents(states, m), ModuleLimit)
                 ELSE states[k]]
    ELSE states

\* the entries onmessage has made, after event.data = d
OnMessageReceived(d, now, log) ==
    IF JSONParseEvent(d).kind = "object"
    THEN <<MessageFeedback(JSONParseEvent(d).obj, now)>> \o log
    ELSE log

-----------------------------------------------------------------------------
(* BrakeChecking page *)

FeedLimit == 10

\* feedbackHistory.find(...): the first entry the latest-speed effect accepts
\* (0 when there is none)
LatestSpeedEvent(history) ==
    LET accepted == {i \in 1..Len(history) :
            \/ /\ Get(history[i], "module") = Str("Speed Monitoring")
               /\ Truthy(Get(history[i], "speed_mph"))
            \/ /\ Get(history[i], "module") = Str("Brake Checking")
               /\ Truthy(Get(history[i], "speed"))}
    IN  IF accepted = {} THEN 0
        ELSE CHOOSE i \in accepted : \A j \in accepted : i <= j

\* the latest-speed effect: speed after it ran on this history
SpeedEffect(history, speed) ==
    IF LatestSpeedEvent(history) = 0 THEN speed
    ELSE MathRound(Or(Or(Get(history[LatestSpeedEvent(history)], "speed_mph"),
                         Get(history[LatestSpeedEvent(history)], "speed")),
                      Num(0)))

\* the page after its first render and its effect
MountBrakePage(history) == [mounted |-> TRUE, speed |-> SpeedEffect(history, Num(0))]

\* the page after a render at route newPath with this history
BrakePageAt(newPath, oldPath, history, page) ==
    IF newPath # "/brake-checking" THEN [mounted |-> FALSE]
    ELSE IF oldPath = newPath /\ page.mounted
         THEN [page EXCEPT !.speed = SpeedEffect(history, @)]
         ELSE MountBrakePage(history)

\* events: the newest entries of the module
BrakeEvents(history) ==
    Slice(SelectSeq(history, LAMBDA event : Get(event, "module") = Str("Brake Checking")),
          FeedLimit)

\* the argument handleSaveFeedback gives addFeedback for one event
SavedFeedback(event) ==
    [module |-> Str("Brake Checking"),
     eventType |-> Get(event, "type"),
     message |-> Get(event, "message"),
     speed |-> Get(event, "speed"),
     force |-> Get(event, "force"),
     severity |-> Get(event, "severity")]

\* events.forEach(addFeedback(...)): the first k calls read Date.now() = t, the
\* rest read t2
RECURSIVE SaveFeedback(_, _, _, _, _)
SaveFeedback(events, k, t, t2, history) ==
    IF events = <<>> THEN history
    ELSE SaveFeedback(Tail(events), IF k > 0 THEN k - 1 ELSE 0, t, t2,
                      AddFeedback(SavedFeedback(Head(events)),
                                  IF k > 0 THEN t ELSE t2, history))

-----------------------------------------------------------------------------
(* FeedbackHistory page *)

ModuleMatch(item, modules) ==
    \E i \in 1..Len(modules) : Get(item, "module") = Str(modules[i])

SeverityMatch(item, severities) ==
    IF Truthy(Get(item, "severity"))
    THEN \E i \in 1..Len(severities) : Get(item, "severity") = Str(severities[i])
    ELSE TRUE

\* filteredHistory
FilteredHistory(history, modules, severities) ==
    SelectSeq(history,
              LAMBDA item : ModuleMatch(item, modules) /\ SeverityMatch(item, severities))

\* the keys of groupedByModule, in the order reduce creates them
RECURSIVE GroupKeys(_)
GroupKeys(items) ==
    IF items = <<>> THEN <<>>
    ELSE <<Get(Head(items), "module")>> \o
         GroupKeys(SelectSeq(Tail(items),
                             LAMBDA item : Get(item, "module") # Get(Head(items), "module")))

\* groupedByModule[module]
Group(items, module) == SelectSeq(items, LAMBDA item : Get(item, "module") = module)

RECURSIVE Concat(_, _)
Concat(keys, items) ==
    IF keys = <<>> THEN <<>> ELSE Group(items, Head(keys)) \o Concat(Tail(keys), items)

\* the entries the page shows, card by card: none when feedbackHistory is empty
Displayed(history, modules, severities) ==
    IF Len(history) = 0 THEN <<>>
    ELSE Concat(GroupKeys(FilteredHistory(history, modules, severities)),
                FilteredHistory(history, modules, severities))

Count(items, module) ==
    Len(SelectSeq(items, LAMBDA f : Get(f, "module") = Str(module)))

\* Stats with the total taken of feedbackHistory, not of filteredHistory
StatsOfAll(history, modules, severities) ==
    [total |-> Len(history),
     braking |-> Count(FilteredHistory(history, modules, severities), "Brake Checking"),
     signals |-> Count(FilteredHistory(history, modules, severities), "Speed Monitoring"),
     lanes |-> Count(FilteredHistory(history, modules, severities), "Lane Change Detection")]

\* stats
Stats(history, modules, severities) ==
    [total |-> Len(FilteredHistory(history, modules, severities)),
     braking |-> Count(FilteredHistory(history, modules, severities), "Brake Checking"),
     signals |-> Count(FilteredHistory(history, modules, severities), "Speed Monitoring"),
     lanes |-> Count(FilteredHistory(history, modules, severities), "Lane Change Detection")]

\* toggleModule, toggleSeverity
Toggle(prev, x) ==
    IF Includes(prev, x) THEN SelectSeq(prev, LAMBDA m : m # x) ELSE Append(prev, x)

-----------------------------------------------------------------------------
(* Login page *)

Emails == {"", "driver@example.com", "nobody@example.com"}
Passwords == {"", "secret", "wrong"}

\* AuthAfterLogin comparing the password with a stored one
AuthAfterLoginChecked(em, pw) == pw = "secret"

\* isAuthenticated after handleLogin has called onLogin(): no auth logic,
\* anything works
AuthAfterLogin(em, pw) == TRUE

-----------------------------------------------------------------------------
(* The state machine *)

\* `last` records the handler that ran last: its name, a number (the message,
\* the entry clicked; for a page load, 1 when nothing but page loads has happened
\* since clearHistory) and a value (the id deleted, the url opened, the password)
Did(op, arg, id) == [op |-> op, arg |-> arg, id |-> id]

Cleared(l) == l.op = "clearHistory" \/ (l.op = "load" /\ l.arg = 1)

\* the components that are not running
NotMounted == [mounted |-> FALSE]

\* isConnected and connectionError as useState makes them, and the EventSource
\* the effect creates (closed after eventSource.close())
NewConnection == [isConnected |-> FALSE, connectionError |-> Null, closed |-> FALSE]
NotStarted == [started |-> FALSE]

RestIdle ==
    /\ brakePage = NotMounted
    /\ lanePage = NotMounted
    /\ brakeSim = NotMounted
    /\ connection = NewConnection
    /\ signalPage = NotMounted
    /\ buffer = NotStarted
    /\ policy = NotStarted
    /\ controller = NotStarted

Init ==
    /\ isAuthenticated = FALSE
    /\ \E url \in Urls : path = Settle(url, FALSE)
    /\ clock = 1
    /\ \E saved \in {NoItem, Item(<<>>)} :
          /\ feedbackHistory = LoadHistory(saved, clock)
          /\ storage = Persist(feedbackHistory)
    /\ selectedModules = InitialModules
    /\ selectedSeverities = InitialSeverities
    /\ \E url \in Urls : last = Did("load", 0, Str(url))
    /\ nAdded = 0
    /\ nDeleted = 0
    /\ moduleStates = LoadModules(NoItem)
    /\ moduleStorage = PersistModules(moduleStates)
    /\ received = <<>>
    /\ RestIdle

\* What a page load constructs, whatever the url: the provider's useState
\* initialisers read the two items, and the persistence effects write them back
\* after the first render
Constructed ==
    LET history == LoadHistory(storage, clock)
        states == LoadModules(moduleStorage)
    IN  [feedbackHistory |-> history, storage |-> Persist(history),
         moduleStates |-> states, moduleStorage |-> PersistModules(states)]

\* The browser loads the application at `url`: every component is constructed
\* anew, the provider as `made`
OpenUrl(url, made) ==
    /\ isAuthenticated' = FALSE
    /\ path' = Settle(url, FALSE)
    /\ feedbackHistory' = made.feedbackHistory
    /\ storage' = made.storage
    /\ selectedModules' = InitialModules
    /\ selectedSeverities' = InitialSeverities
    /\ last' = Did("load", IF Cleared(last) THEN 1 ELSE 0, Str(url))
    /\ moduleStates' = made.moduleStates
    /\ moduleStorage' = made.moduleStorage
    /\ connection' = NewConnection
    /\ brakePage' = BrakePageAt(path', "", feedbackHistory', brakePage)
    /\ UNCHANGED <<clock, nAdded, nDeleted, received, signalPage, simVars,
                   pipelineVars>>

\* handleLogin, with the email and the password typed: onLogin(); navigate('/home')
HandleLogin(em, pw) ==
    /\ isAuthenticated' = AuthAfterLogin(em, pw)
    /\ path' = Settle("/home", isAuthenticated')
    /\ last' = Did("login", 0, Str(pw))
    /\ UNCHANGED <<providerVars, filterVars, moduleVars, received, restVars>>

\* Login: the form is submitted (both inputs are `required`)
SubmitForm(em, pw) ==
    /\ path = "/login"
    /\ em # ""
    /\ pw # ""
    /\ HandleLogin(em, pw)

\* Login: the Face ID and Touch ID buttons, whatever the inputs hold
Biometric(em, pw) ==
    /\ path = "/login"
    /\ HandleLogin(em, pw)

\* navigate(target) from a page's button
Navigate(target, op) ==
    /\ path' = Settle(target, isAuthenticated)
    /\ selectedModules' = IF path' = path THEN selectedModules ELSE InitialModules
    /\ selectedSeverities' = IF path' = path THEN selectedSeverities ELSE InitialSeverities
    /\ last' = Did(op, 0, Undefined)
    /\ brakePage' = BrakePageAt(path', path, feedbackHistory, brakePage)
    /\ UNCHANGED <<isAuthenticated, providerVars, moduleVars, received, connection,
                   signalPage, simVars, pipelineVars>>

\* Home: a module card or the Feedback History button
OpenPage(target) ==
    /\ path = "/home"
    /\ Navigate(target, "navigate")

\* a page's Back button
Back ==
    /\ path \in ProtectedRoutes \ {"/home"}
    /\ Navigate("/home", "navigate")

\* Home: the Logout button
Logout ==
    /\ path = "/home"
    /\ Navigate("/login", "logout")

\* eventSource.onmessage, with the persistence effect that follows a change
OnMessage(d) ==
    /\ ~connection.closed
    /\ nAdded < MaxAdds
    /\ \E now \in Nows(clock) :
          /\ feedbackHistory' = OnMessageHistory(d, now, feedbackHistory)
          /\ moduleStates' = OnMessageModules(d, now, moduleStates)
          /\ received' = OnMessageReceived(d, now, received)
          /\ clock' = IF feedbackHistory' = feedbackHistory THEN clock ELSE now
    /\ storage' = IF feedbackHistory' = feedbackHistory THEN storage
                  ELSE Persist(feedbackHistory')
    /\ moduleStorage' = IF moduleStates' = moduleStates THEN moduleStorage
                        ELSE PersistModules(moduleStates')
    /\ nAdded' = nAdded + Len(feedbackHistory') - Len(feedbackHistory)
    /\ last' = Did("onmessage", d, Undefined)
    /\ brakePage' = BrakePageAt(path, path, feedbackHistory', brakePage)
    /\ UNCHANGED <<appVars, filterVars, nDeleted, connection, signalPage, simVars,
                   pipelineVars>>

\* BrakeChecking: Save All to History (disabled while there are no events)
SaveAll ==
    /\ path = "/brake-checking"
    /\ Len(BrakeEvents(feedbackHistory)) # 0
    /\ nAdded + Len(BrakeEvents(feedbackHistory)) <= MaxAdds
    /\ \E now \in Nows(clock), k \in 0..Len(BrakeEvents(feedbackHistory)) :
          /\ now = clock => k = 0
          /\ feedbackHistory' =
                SaveFeedback(BrakeEvents(feedbackHistory), k, clock, now, feedbackHistory)
          /\ clock' = now
    /\ storage' = Persist(feedbackHistory')
    /\ nAdded' = nAdded + Len(BrakeEvents(feedbackHistory))
    /\ last' = Did("saveAll", 0, Undefined)
    /\ brakePage' = BrakePageAt(path, path, feedbackHistory', brakePage)
    /\ UNCHANGED <<appVars, filterVars, nDeleted, moduleVars, received, connection,
                   signalPage, simVars, pipelineVars>>

\* FeedbackHistory: the delete button of the i-th entry shown, confirmed
Delete(i) ==
    /\ path = "/feedback-history"
    /\ nDeleted < MaxDeletes
    /\ i \in 1..Len(Displayed(feedbackHistory, selectedModules, selectedSeverities))
    /\ LET item == Displayed(feedbackHistory, selectedModules, selectedSeverities)[i]
       IN  /\ feedbackHistory' = DeleteFeedback(Get(item, "id"), feedbackHistory)
           /\ last' = Did("delete", i, Get(item, "id"))
    /\ storage' = Persist(feedbackHistory')
    /\ nDeleted' = nDeleted + 1
    /\ UNCHANGED <<appVars, filterVars, clock, nAdded, moduleVars, received, restVars>>

\* FeedbackHistory: Clear All (shown while the history is not empty), confirmed
ClearAll ==
    /\ path = "/feedback-history"
    /\ Len(feedbackHistory) > 0
    /\ feedbackHistory' = <<>>
    /\ storage' = ClearHistoryStorage
    /\ last' = Did("clearHistory", 0, Undefined)
    /\ UNCHANGED <<appVars, filterVars, clock, nAdded, nDeleted, moduleVars, received, restVars>>

\* FeedbackHistory: a module checkbox
ToggleModule(module) ==
    /\ path = "/feedback-history"
    /\ selectedModules' = Toggle(selectedModules, module)
    /\ last' = Did("toggleModule", 0, Undefined)
    /\ UNCHANGED <<appVars, providerVars, selectedSeverities, moduleVars, received, restVars>>

\* FeedbackHistory: a severity checkbox
ToggleSeverity(severity) ==
    /\ path = "/feedback-history"
    /\ selectedSeverities' = Toggle(selectedSeverities, severity)
    /\ last' = Did("toggleSeverity", 0, Undefined)
    /\ UNCHANGED <<appVars, providerVars, selectedModules, moduleVars, received, restVars>>

Next ==
    \/ \E made \in {Constructed}, url \in Urls : OpenUrl(url, made)
    \/ \E em \in Emails, pw \in Passwords : SubmitForm(em, pw)
    \/ \E em \in Emails, pw \in Passwords : Biometric(em, pw)
    \/ \E target \in ProtectedRoutes \ {"/home"} : OpenPage(target)
    \/ Back
    \/ Logout
    \/ \E d \in DashboardData : OnMessage(d)
    \/ SaveAll
    \/ \E i \in 1..(MaxAdds + 8) : Delete(i)
    \/ ClearAll

Spec == Init /\ [][Next]_vars

-----------------------------------------------------------------------------
(* The FeedbackHistory page alone: the page is open on a history the event
   stream has built on top of what is left of the dummy data (messages are
   added at the head, deletions keep the order), and the filter checkboxes
   are used *)

MaxViewLen == 2

\* entries onmessage makes of the stream's objects
ViewMessages ==
    {MessageFeedback(EventData[d].obj, 1) :
        d \in {x \in 1..Len(EventData) : EventData[x].kind = "object"}}

\* the dummy entries the history may still hold: one of each module
ViewDummies == {DummyFeedback(1)[i] : i \in 1..3}

RECURSIVE SeqsUpTo(_, _)
SeqsUpTo(S, n) ==
    IF n = 0 THEN {<<>>}
    ELSE SeqsUpTo(S, n - 1) \cup
         {<<e>> \o s : e \in S, s \in {t \in SeqsUpTo(S, n - 1) : Len(t) = n - 1}}

InitView ==
    /\ isAuthenticated = TRUE
    /\ path = "/feedback-history"
    /\ clock = 1
    /\ \E msgs \in SeqsUpTo(ViewMessages, MaxViewLen), kept \in SUBSET ViewDummies :
          /\ Len(msgs) + Cardinality(kept) <= MaxViewLen
          /\ feedbackHistory =
                msgs \o SelectSeq(DummyFeedback(1), LAMBDA e : e \in kept)
          /\ received = msgs
          /\ moduleStates =
                [m \in DOMAIN InitialModuleStates |->
                    SelectSeq(msgs, LAMBDA e : Get(e, "module") = Str(m))]
    /\ storage = Persist(feedbackHistory)
    /\ selectedModules = InitialModules
    /\ selectedSeverities = InitialSeverities
    /\ last = Did("navigate", 0, Undefined)
    /\ nAdded = 0
    /\ nDeleted = 0
    /\ moduleStorage = PersistModules(moduleStates)
    /\ RestIdle

NextView ==
    \/ \E module \in Range(InitialModules) : ToggleModule(module)
    \/ \E severity \in Range(InitialSeverities) : ToggleSeverity(severity)

SpecView == InitView /\ [][NextView]_vars

-----------------------------------------------------------------------------
(* The FeedbackProvider on the event stream: messages and page loads, on a
   fresh provider or on one that has received a run of brake events *)

Backlog == 9

\* the provider after n 'Brake Checking' messages, one per millisecond
RECURSIVE Streamed(_)
Streamed(n) ==
    IF n = 0
    THEN [history |-> LoadHistory(NoItem, 1), modules |-> LoadModules(NoItem),
          log |-> <<>>]
    ELSE [history |-> OnMessageHistory(1, n + 1, Streamed(n - 1).history),
          modules |-> OnMessageModules(1, n + 1, Streamed(n - 1).modules),
          log |-> OnMessageReceived(1, n + 1, Streamed(n - 1).log)]

InitModules ==
    /\ isAuthenticated = FALSE
    /\ path = "/login"
    /\ \E n \in {0, Backlog} :
          /\ clock = n + 1
          /\ feedbackHistory = Streamed(n).history
          /\ moduleStates = Streamed(n).modules
          /\ received = Streamed(n).log
    /\ storage = Persist(feedbackHistory)
    /\ moduleStorage = PersistModules(moduleStates)
    /\ selectedModules = InitialModules
    /\ selectedSeverities = InitialSeverities
    /\ last = Did("load", 0, Str("/login"))
    /\ nAdded = 0
    /\ nDeleted = 0
    /\ RestIdle

\* what onopen, onerror and the effect's cleanup leave alone
streamFrame ==
    <<appVars, providerVars, filterVars, moduleVars, received, brakePage,
      signalPage, simVars, pipelineVars>>

ConnectionLost == Str("Connection lost. Retrying...")

\* onopen that leaves the error text in place
OnOpenKeepsError ==
    /\ ~connection.closed
    /\ connection' = [connection EXCEPT !.isConnected = TRUE]
    /\ last' = Did("onopen", IF connection.connectionError # Null THEN 1 ELSE 0,
                   Undefined)
    /\ UNCHANGED streamFrame

\* eventSource.onopen (last.arg is 1 when an error text was showing)
OnOpen ==
    /\ ~connection.closed
    /\ connection' = [connection EXCEPT !.isConnected = TRUE,
                                         !.connectionError = Null]
    /\ last' = Did("onopen", IF connection.connectionError # Null THEN 1 ELSE 0,
                   Undefined)
    /\ UNCHANGED streamFrame

\* eventSource.onerror
OnError ==
    /\ ~connection.closed
    /\ connection' = [connection EXCEPT !.isConnected = FALSE,
                                         !.connectionError = ConnectionLost]
    /\ last' = Did("onerror", 0, Undefined)
    /\ UNCHANGED streamFrame

\* the provider unmounts: the effect's cleanup
Unmount ==
    /\ ~connection.closed
    /\ connection' = [connection EXCEPT !.isConnected = FALSE, !.closed = TRUE]
    /\ last' = Did("unmount", 0, Undefined)
    /\ UNCHANGED streamFrame

NextModules ==
    \/ \E d \in 1..Len(EventData) : OnMessage(d)
    \/ \E made \in {Constructed}, url \in Urls : OpenUrl(url, made)
    \/ OnOpen
    \/ OnError
    \/ Unmount

SpecModules == InitModules /\ [][NextModules]_vars

-----------------------------------------------------------------------------
(* The FeedbackProvider that removes duplicates when it loads the saved
   history: the load alone, on the histories its onmessage can have saved.
   A string is the sequence of its characters where strings are joined. *)

MaxSaved == 3

DecimalDigits == <<"0", "1", "2", "3", "4", "5", "6", "7", "8", "9">>

\* String(n) for an integer n >= 0
RECURSIVE NumberChars(_)
NumberChars(n) ==
    IF n < 10 THEN <<DecimalDigits[n + 1]>>
    ELSE NumberChars(n \div 10) \o <<DecimalDigits[(n % 10) + 1]>>

\* the characters of the strings that ids and timestamps of the messages are
Spelling == [s \in {"7"} |-> <<"7">>]

\* new Date(ms).toISOString() for 0 <= ms < 1000
IsoChars(ms) ==
    <<"1", "9", "7", "0", "-", "0", "1", "-", "0", "1", "T",
      "0", "0", ":", "0", "0", ":", "0", "0", ".">>
        \o <<DecimalDigits[(ms \div 100) + 1], DecimalDigits[((ms \div 10) % 10) + 1],
              DecimalDigits[(ms % 10) + 1], "Z">>

\* `${v}`
TemplateChars(v) ==
    CASE v[1] = "number" -> NumberChars(v[2])
      [] v[1] = "string" -> Spelling[v[2]]
      [] v[1] = "isostring" -> IsoChars(v[2])
      [] v[1] = "boolean" -> IF v[2] THEN <<"t", "r", "u", "e">>
                                     ELSE <<"f", "a", "l", "s", "e">>
      [] v[1] = "null" -> <<"n", "u", "l", "l">>
      [] v[1] = "undefined" -> <<"u", "n", "d", "e", "f", "i", "n", "e", "d">>

\* key = `${event.id}-${event.timestamp}`
EventKey(event) ==
    TemplateChars(Get(event, "id")) \o <<"-">> \o TemplateChars(Get(event, "timestamp"))

\* events.reduce(..., { seen: new Set(), events: [] }).events
RECURSIVE UniqueEvents(_, _, _)
UniqueEvents(events, seen, kept) ==
    IF events = <<>> THEN kept
    ELSE IF EventKey(Head(events)) \in seen
         THEN UniqueEvents(Tail(events), seen, kept)
         ELSE UniqueEvents(Tail(events), seen \cup {EventKey(Head(events))},
                           Append(kept, Head(events)))

\* useState initialiser of feedbackHistory
LoadUniqueHistory(saved) ==
    IF saved.has THEN UniqueEvents(JSONParse(saved.text), {}, <<>>) ELSE <<>>

\* normalizedData that looks at type before module
NormalizedDataTypeFirst(data) ==
    Spread(data,
           [eventType |-> Or(Or(Or(Get(data, "eventType"), Get(data, "type")),
                                Get(data, "module")),
                             Str("Event"))])

\* normalizedData of onmessage
NormalizedData(data) ==
    Spread(data,
           [eventType |-> Or(Or(Or(Get(data, "eventType"), Get(data, "module")),
                                Get(data, "type")),
                             Str("Event"))])

\* newFeedback of onmessage
NormalizedFeedback(data, now) ==
    Spread([id |-> Or(Get(NormalizedData(data), "id"), Num(now)),
            timestamp |-> Or(Get(NormalizedData(data), "timestamp"), Iso(now))],
           NormalizedData(data))

\* JSON.parse(event.data) of the messages that made the saved history
SavedData ==
    { [module |-> Str("Brake Checking"), severity |-> Str("high")],
      [id |-> Num(7), timestamp |-> Iso(0), module |-> Str("Brake Checking")],
      [id |-> Num(7), timestamp |-> Iso(0), module |-> Str("Speed Monitoring")],
      [id |-> Str("7"), timestamp |-> Iso(0), module |-> Str("Speed Monitoring")] }

\* the entries onmessage made of them
SavedEntries == {NormalizedFeedback(data, now) : data \in SavedData, now \in {1, 2}}

SavedHistories == UNION {[1..n -> SavedEntries] : n \in 0..MaxSaved}

\* the page is about to load: localStorage holds what an earlier session saved
InitSaved ==
    /\ isAuthenticated = FALSE
    /\ path = "/login"
    /\ clock = 3
    /\ feedbackHistory = <<>>
    /\ storage \in {NoItem} \cup {Persist(h) : h \in SavedHistories}
    /\ selectedModules = InitialModules
    /\ selectedSeverities = InitialSeverities
    /\ last = Did("closed", 0, Undefined)
    /\ nAdded = 0
    /\ nDeleted = 0
    /\ moduleStates = LoadModules(NoItem)
    /\ moduleStorage = PersistModules(moduleStates)
    /\ received = <<>>
    /\ RestIdle

\* FeedbackProvider mounts: the initialiser runs, then the persistence effect
LoadSaved ==
    /\ feedbackHistory' = LoadUniqueHistory(storage)
    /\ storage' = Persist(feedbackHistory')
    /\ last' = Did("load", 0, Str("/login"))
    /\ UNCHANGED <<appVars, clock, nAdded, nDeleted, filterVars, moduleVars,
                   received, restVars>>

NextSaved == LoadSaved

SpecSaved == InitSaved /\ [][NextSaved]_vars

-----------------------------------------------------------------------------
(* The same FeedbackProvider on the event stream: its onmessage gives every
   entry an eventType before it stores it *)

\* JSON.parse(event.data) of the messages of this stream
NormalizedInputs ==
    << Parsed([module |-> Str("Brake Checking"), eventType |-> Str("hard"),
               type |-> Str("brake"), severity |-> Str("high")]),
       Parsed([module |-> Str("Speed Monitoring"), type |-> Str("speed_update"),
               speed_mph |-> Num(45)]),
       Parsed([type |-> Str("gps_status"), message |-> Str("No GPS fix")]),
       Parsed([message |-> Str("hello")]),
       Parsed([eventType |-> Str(""), module |-> Str("Lane Change Detection")]),
       Parsed([id |-> Num(7), timestamp |-> Iso(0), eventType |-> Str("light"),
               module |-> Str("Brake Checking")]),
       Parsed([id |-> Null, timestamp |-> Null, module |-> Str("Brake Checking")]),
       ParsedNull,
       SyntaxError >>

\* setFeedbackHistory((prev) => [newFeedback, ...prev]) inside the try block
NormalizedHistory(parsed, now, history) ==
    IF parsed.kind = "object"
    THEN <<NormalizedFeedback(parsed.obj, now)>> \o history
    ELSE history

\* if (data.module) setModuleStates(...)
NormalizedModules(parsed, now, states) ==
    IF parsed.kind = "object" /\ Truthy(Get(parsed.obj, "module"))
    THEN LET m == Get(parsed.obj, "module")[2]
         IN  [k \in DOMAIN states \cup {m} |->
                 IF k = m
                 THEN Slice(<<NormalizedFeedback(parsed.obj, now)>>
                               \o ModuleEvents(states, m), ModuleLimit)
                 ELSE states[k]]
    ELSE states

\* the provider after its first render with nothing saved
InitNormalized ==
    /\ isAuthenticated = FALSE
    /\ path = "/login"
    /\ clock = 1
    /\ feedbackHistory = LoadUniqueHistory(NoItem)
    /\ storage = Persist(feedbackHistory)
    /\ selectedModules = InitialModules
    /\ selectedSeverities = InitialSeverities
    /\ last = Did("load", 0, Str("/login"))
    /\ nAdded = 0
    /\ nDeleted = 0
    /\ moduleStates = LoadModules(NoItem)
    /\ moduleStorage = PersistModules(moduleStates)
    /\ received = <<>>
    /\ RestIdle

\* eventSource.onmessage for event.data = the i-th input
OnMessageNormalized(i) ==
    /\ ~connection.closed
    /\ nAdded < MaxAdds
    /\ \E now \in Nows(clock) :
          /\ feedbackHistory' = NormalizedHistory(NormalizedInputs[i], now, feedbackHistory)
          /\ moduleStates' = NormalizedModules(NormalizedInputs[i], now, moduleStates)
          /\ received' = NormalizedHistory(NormalizedInputs[i], now, received)
          /\ clock' = IF feedbackHistory' = feedbackHistory THEN clock ELSE now
    /\ storage' = IF feedbackHistory' = feedbackHistory THEN storage
                  ELSE Persist(feedbackHistory')
    /\ moduleStorage' = IF moduleStates' = moduleStates THEN moduleStorage
                        ELSE PersistModules(moduleStates')
    /\ nAdded' = nAdded + Len(feedbackHistory') - Len(feedbackHistory)
    /\ last' = Did("onmessage", i, Undefined)
    /\ UNCHANGED <<appVars, filterVars, nDeleted, restVars>>

NextNormalized ==
    \/ \E i \in 1..Len(NormalizedInputs) : OnMessageNormalized(i)
    \/ LoadSaved

SpecNormalized == InitNormalized /\ [][NextNormalized]_vars

-----------------------------------------------------------------------------
(* The Brake Checking page on the event stream: a signed-in driver has the
   page open while brake and speed messages arrive *)

InitBrake ==
    /\ isAuthenticated = TRUE
    /\ path = "/brake-checking"
    /\ clock = 1
    /\ \E saved \in {NoItem, Item(<<>>)} :
          /\ feedbackHistory = LoadHistory(saved, clock)
          /\ storage = Persist(feedbackHistory)
    /\ selectedModules = InitialModules
    /\ selectedSeverities = InitialSeverities
    /\ last = Did("navigate", 0, Undefined)
    /\ nAdded = 0
    /\ nDeleted = 0
    /\ moduleStates = LoadModules(NoItem)
    /\ moduleStorage = PersistModules(moduleStates)
    /\ received = <<>>
    /\ brakePage = MountBrakePage(feedbackHistory)
    /\ connection = NewConnection
    /\ lanePage = NotMounted
    /\ brakeSim = NotMounted
    /\ signalPage = NotMounted
    /\ buffer = NotStarted
    /\ policy = NotStarted
    /\ controller = NotStarted

NextBrake ==
    \/ \E d \in 1..Len(EventData) : OnMessage(d)
    \/ SaveAll
    \/ Back
    \/ OpenPage("/brake-checking")

SpecBrake == InitBrake /\ [][NextBrake]_vars

-----------------------------------------------------------------------------
(* The dashboard at rest: what the pipeline's specifications leave alone *)

dashboardVars ==
    <<isAuthenticated, path, feedbackHistory, storage, clock, selectedModules,
      selectedSeverities, last, nAdded, nDeleted, moduleStates, moduleStorage,
      received, brakePage, connection, simVars, signalPage>>

DashboardClosed ==
    /\ isAuthenticated = FALSE
    /\ path = "/login"
    /\ clock = 1
    /\ feedbackHistory = LoadHistory(NoItem, clock)
    /\ storage = Persist(feedbackHistory)
    /\ selectedModules = InitialModules
    /\ selectedSeverities = InitialSeverities
    /\ last = Did("load", 0, Str("/login"))
    /\ nAdded = 0
    /\ nDeleted = 0
    /\ moduleStates = LoadModules(NoItem)
    /\ moduleStorage = PersistModules(moduleStates)
    /\ received = <<>>
    /\ brakePage = NotMounted
    /\ connection = NewConnection
    /\ lanePage = NotMounted
    /\ brakeSim = NotMounted
    /\ signalPage = NotMounted

-----------------------------------------------------------------------------
(* RoadSignalMonitoring page (the simulation): one visit of the page, with
   its detection interval and the timeouts that clear the Current Detection.
   Times are milliseconds since the page was opened. *)

MaxSignalTicks == 4

IntervalMs == 4000
ClearAfterMs == 5000
SignalEventsLimit == 10

SignalModule == "Road Signal Monitoring"

\* signalTypes (the icon, a component, is no data and is left out)
SignalTypes ==
    << [type |-> Str("Stop Sign"), color |-> Str("red"), action |-> Str("STOP"),
        message |-> Str("Stop sign ahead! Come to complete stop.")],
       [type |-> Str("Green Light"), color |-> Str("green"), action |-> Str("PROCEED"),
        message |-> Str("Green light. Proceed with caution.")] >>

\* Math.round(Math.random() * 200 + 50)
Distances == {50, 250}

\* newEvent of the interval callback
SignalEvent(signal, now, distance) ==
    Spread(Spread([id |-> Num(now), time |-> Iso(now)], signal),
           [distance |-> Num(distance)])

\* updateModuleEvents(moduleName, events)
UpdateModuleEvents(states, moduleName, events) ==
    [k \in DOMAIN states \cup {moduleName} |->
        IF k = moduleName THEN events ELSE states[k]]

\* the page after its first render and effects
MountedSignalPage(states) ==
    [mounted |-> TRUE,
     now |-> 0,
     events |-> ModuleEvents(states, SignalModule),
     currentSignal |-> Null,
     shownAt |-> 0,
     nextTick |-> IntervalMs,
     timeouts |-> {},
     ticks |-> 0]

\* the timeout that is due first
FirstTimeout(p) == CHOOSE t \in p.timeouts : \A u \in p.timeouts : t <= u

\* the interval's callback is due before every pending timeout
IntervalIsNext(p) == \A t \in p.timeouts : p.nextTick < t

\* what the dashboard's provider keeps besides moduleStates
signalFrame ==
    <<isAuthenticated, path, feedbackHistory, storage, clock, selectedModules,
      selectedSeverities, last, nAdded, nDeleted, received, brakePage,
      connection, simVars, pipelineVars>>

\* the user opens /road-signals
MountSignals ==
    /\ signalPage = NotMounted
    /\ signalPage' = MountedSignalPage(moduleStates)
    /\ moduleStates' = UpdateModuleEvents(moduleStates, SignalModule, signalPage'.events)
    /\ moduleStorage' = PersistModules(moduleStates')
    /\ UNCHANGED signalFrame

\* the interval callback runs and Math.random() > 0.6: a signal is detected
IntervalDetects(i, distance) ==
    /\ signalPage.mounted
    /\ signalPage.ticks < MaxSignalTicks
    /\ IntervalIsNext(signalPage)
    /\ LET now == signalPage.nextTick
       IN  signalPage' =
             [signalPage EXCEPT
                !.now = now,
                !.currentSignal = Obj(SignalTypes[i]),
                !.shownAt = now,
                !.events = Slice(<<SignalEvent(SignalTypes[i], now, distance)>> \o @,
                                 SignalEventsLimit),
                !.timeouts = @ \cup {now + ClearAfterMs},
                !.nextTick = now + IntervalMs,
                !.ticks = @ + 1]
    /\ moduleStates' = UpdateModuleEvents(moduleStates, SignalModule, signalPage'.events)
    /\ moduleStorage' = PersistModules(moduleStates')
    /\ UNCHANGED signalFrame

\* the interval callback runs and Math.random() <= 0.6
IntervalIdle ==
    /\ signalPage.mounted
    /\ signalPage.ticks < MaxSignalTicks
    /\ IntervalIsNext(signalPage)
    /\ signalPage' = [signalPage EXCEPT !.now = signalPage.nextTick,
                                         !.nextTick = @ + IntervalMs,
                                         !.ticks = @ + 1]
    /\ UNCHANGED <<moduleVars, signalFrame>>

\* a timeout set by a detection runs: setCurrentSignal(null)
TimeoutFires ==
    /\ signalPage.mounted
    /\ signalPage.timeouts # {}
    /\ FirstTimeout(signalPage) < signalPage.nextTick
    /\ signalPage' = [signalPage EXCEPT !.now = FirstTimeout(signalPage),
                                         !.currentSignal = Null,
                                         !.timeouts = @ \ {FirstTimeout(signalPage)}]
    /\ UNCHANGED <<moduleVars, signalFrame>>

\* Back: the page unmounts and the effect's cleanup clears the interval
UnmountSignals ==
    /\ signalPage.mounted
    /\ signalPage' = [mounted |-> FALSE, leftAt |-> signalPage.now]
    /\ UNCHANGED <<moduleVars, signalFrame>>

InitSignals ==
    /\ DashboardClosed
    /\ buffer = NotStarted
    /\ policy = NotStarted
    /\ controller = NotStarted

NextSignals ==
    \/ MountSignals
    \/ \E i \in 1..Len(SignalTypes), distance \in Distances : IntervalDetects(i, distance)
    \/ IntervalIdle
    \/ TimeoutFires
    \/ UnmountSignals

SpecSignals == InitSignals /\ [][NextSignals]_vars

-----------------------------------------------------------------------------
(* LaneChangeDetection page (the simulation): one visit of the page. A value
   of Math.random() is its thousandths, r for r / 1000; scores are kept in
   thousandths as well. *)

MaxSimTicks == 2

PerMille == 1000

\* values of Math.random(), which is at least 0 and below 1
RandomDraws == {0, 300, 301, 600, 999}

LaneModule == "Lane Change Detection"
LaneIntervalMs == 5000
LaneEventsLimit == 10

lanes == <<"Left", "Center", "Right">>

\* Math.round of x / PerMille, as a number
RoundPerMille(x) == Num((2 * x + PerMille) \div (2 * PerMille))

\* possibleLanes[Math.floor(Math.random() * possibleLanes.length)]
ToLane(fromLane, r) ==
    LET possibleLanes == SelectSeq(lanes, LAMBDA l : l # fromLane)
    IN  possibleLanes[((r * Len(possibleLanes)) \div PerMille) + 1]

\* safetyScore in thousandths: Math.random() * 30 + 70 or Math.random() * 60 + 20
SafetyScore(signalUsed, r) == IF signalUsed THEN r * 30 + 70 * PerMille
                                            ELSE r * 60 + 20 * PerMille

\* getLaneChangeMessage: the text it picks and the lanes it puts in
LaneChangeMessage(signalUsed, score, from, to) ==
    IF ~signalUsed THEN <<"Lane change WITHOUT signal!", from, to>>
    ELSE IF score >= 80 * PerMille THEN <<"Safe lane change", from, to>>
    ELSE IF score >= 60 * PerMille THEN <<"Check blind spots more carefully.", from, to>>
    ELSE <<"Unsafe lane change", from, to>>

\* getSeverity with the score compared before the signal is looked at
GetSeverityByScore(score, signalUsed) ==
    IF score < 50 * PerMille THEN "high"
    ELSE IF score < 70 * PerMille THEN "medium"
    ELSE IF ~signalUsed THEN "high"
    ELSE "low"

\* getSeverity
GetSeverity(score, signalUsed) ==
    IF ~signalUsed \/ score < 50 * PerMille THEN "high"
    ELSE IF score < 70 * PerMille THEN "medium"
    ELSE "low"

\* newEvent of the interval callback
LaneEvent(now, fromLane, signalDraw, laneDraw, scoreDraw) ==
    LET signalUsed == signalDraw > 300
        toLane == ToLane(fromLane, laneDraw)
        safetyScore == SafetyScore(signalUsed, scoreDraw)
    IN  [id |-> Num(now),
         time |-> Iso(now),
         fromLane |-> Str(fromLane),
         toLane |-> Str(toLane),
         signalUsed |-> Bool(signalUsed),
         safetyScore |-> RoundPerMille(safetyScore),
         message |-> LaneChangeMessage(signalUsed, safetyScore, fromLane, toLane),
         severity |-> Str(GetSeverity(safetyScore, signalUsed))]

\* the page after its first render and effects
MountedLanePage(states) ==
    [mounted |-> TRUE,
     now |-> 0,
     events |-> ModuleEvents(states, LaneModule),
     currentLane |-> "Center",
     ticks |-> 0]

\* what the lane page leaves alone besides moduleStates
laneFrame ==
    <<isAuthenticated, path, feedbackHistory, storage, clock, selectedModules,
      selectedSeverities, last, nAdded, nDeleted, received, brakePage,
      connection, brakeSim, signalPage, pipelineVars>>

\* the user opens /lane-change
MountLanes ==
    /\ lanePage = NotMounted
    /\ lanePage' = MountedLanePage(moduleStates)
    /\ moduleStates' = UpdateModuleEvents(moduleStates, LaneModule, lanePage'.events)
    /\ moduleStorage' = PersistModules(moduleStates')
    /\ UNCHANGED laneFrame

\* the interval callback runs and Math.random() > 0.7: a lane change
LaneChanges(signalDraw, laneDraw, scoreDraw) ==
    /\ lanePage.mounted
    /\ lanePage.ticks < MaxSimTicks
    /\ LET now == lanePage.now + LaneIntervalMs
           newEvent == LaneEvent(now, lanePage.currentLane, signalDraw, laneDraw,
                                 scoreDraw)
       IN  lanePage' = [lanePage EXCEPT
                          !.now = now,
                          !.currentLane = newEvent.toLane[2],
                          !.events = Slice(<<newEvent>> \o @, LaneEventsLimit),
                          !.ticks = @ + 1]
    /\ moduleStates' = UpdateModuleEvents(moduleStates, LaneModule, lanePage'.events)
    /\ moduleStorage' = PersistModules(moduleStates')
    /\ UNCHANGED laneFrame

\* the interval callback runs and Math.random() <= 0.7
LaneKept ==
    /\ lanePage.mounted
    /\ lanePage.ticks < MaxSimTicks
    /\ lanePage' = [lanePage EXCEPT !.now = @ + LaneIntervalMs, !.ticks = @ + 1]
    /\ UNCHANGED <<moduleVars, laneFrame>>

\* Back: the page unmounts and the effect's cleanup clears the interval
UnmountLanes ==
    /\ lanePage.mounted
    /\ lanePage' = [mounted |-> FALSE, leftAt |-> lanePage.now]
    /\ UNCHANGED <<moduleVars, laneFrame>>

InitLanes ==
    /\ DashboardClosed
    /\ buffer = NotStarted
    /\ policy = NotStarted
    /\ controller = NotStarted

NextLanes ==
    \/ MountLanes
    \/ \E signalDraw \in RandomDraws, laneDraw \in RandomDraws, scoreDraw \in RandomDraws :
          LaneChanges(signalDraw, laneDraw, scoreDraw)
    \/ LaneKept
    \/ UnmountLanes

SpecLanes == InitLanes /\ [][NextLanes]_vars

-----------------------------------------------------------------------------
(* BrakeChecking page (the simulation): one visit of the page. Speeds inside
   a callback are kept in thousandths, like the values of Math.random(). *)

BrakeModule == "Brake Checking"
BrakeIntervalMs == 3000
BrakeEventsLimit == 10
InitialSpeed == 45
TopSpeed == 80

\* values of Math.random() for the speed change and for the brake force
SpeedDraws == {0, 999}
ForceDraws == {0, 400, 401, 405, 700, 701, 705, 999}

\* Math.max(0, Math.min(80, speed + (Math.random() * 10 - 5))), in thousandths
NewSpeed(speed, r) ==
    LET moved == speed * PerMille + r * 10 - 5 * PerMille
        capped == IF moved > TopSpeed * PerMille THEN TopSpeed * PerMille ELSE moved
    IN  IF capped < 0 THEN 0 ELSE capped

\* eventType with the limits counted in
BrakeEventTypeInclusive(brakeForce) ==
    IF brakeForce >= 700 THEN "hard"
    ELSE IF brakeForce >= 400 THEN "moderate"
    ELSE "light"

\* eventType = brakeForce > 0.7 ? 'hard' : brakeForce > 0.4 ? 'moderate' : 'light'
BrakeEventType(brakeForce) ==
    IF brakeForce > 700 THEN "hard"
    ELSE IF brakeForce > 400 THEN "moderate"
    ELSE "light"

\* getBrakeMessage: the text it picks and the speed it puts in (thousandths)
BrakeMessage(type, currentSpeed) ==
    IF type = "hard" THEN <<"HARD BRAKING DETECTED", currentSpeed>>
    ELSE IF type = "moderate" THEN <<"Moderate braking", currentSpeed>>
    ELSE <<"Gentle braking", currentSpeed>>

\* newEvent of the interval callback
BrakeEvent(now, newSpeed, brakeForce) ==
    [id |-> Num(now),
     time |-> Iso(now),
     type |-> Str(BrakeEventType(brakeForce)),
     speed |-> RoundPerMille(newSpeed),
     force |-> RoundPerMille(brakeForce * 100),
     message |-> BrakeMessage(BrakeEventType(brakeForce), newSpeed)]

\* the page after its first render and effects (drawn: the brake force behind
\* each event, a history variable)
MountedBrakeSim(states) ==
    [mounted |-> TRUE,
     now |-> 0,
     events |-> ModuleEvents(states, BrakeModule),
     drawn |-> <<>>,
     speed |-> InitialSpeed,
     ticks |-> 0]

\* what the page leaves alone besides moduleStates
brakeSimFrame ==
    <<isAuthenticated, path, feedbackHistory, storage, clock, selectedModules,
      selectedSeverities, last, nAdded, nDeleted, received, brakePage,
      connection, lanePage, signalPage, pipelineVars>>

\* the user opens /brake-checking
MountBrakeSim ==
    /\ brakeSim = NotMounted
    /\ brakeSim' = MountedBrakeSim(moduleStates)
    /\ moduleStates' = UpdateModuleEvents(moduleStates, BrakeModule, brakeSim'.events)
    /\ moduleStorage' = PersistModules(moduleStates')
    /\ UNCHANGED brakeSimFrame

\* the interval callback runs and Math.random() > 0.8: a brake event
BrakeDetected(speedDraw, brakeForce) ==
    /\ brakeSim.mounted
    /\ brakeSim.ticks < MaxSimTicks
    /\ LET now == brakeSim.now + BrakeIntervalMs
           newSpeed == NewSpeed(brakeSim.speed, speedDraw)
       IN  brakeSim' = [brakeSim EXCEPT
                          !.now = now,
                          !.speed = RoundPerMille(newSpeed)[2],
                          !.events = Slice(<<BrakeEvent(now, newSpeed, brakeForce)>> \o @,
                                           BrakeEventsLimit),
                          !.drawn = Slice(<<brakeForce>> \o @, BrakeEventsLimit),
                          !.ticks = @ + 1]
    /\ moduleStates' = UpdateModuleEvents(moduleStates, BrakeModule, brakeSim'.events)
    /\ moduleStorage' = PersistModules(moduleStates')
    /\ UNCHANGED brakeSimFrame

\* the interval callback runs and Math.random() <= 0.8: only the speed moves
SpeedMoves(speedDraw) ==
    /\ brakeSim.mounted
    /\ brakeSim.ticks < MaxSimTicks
    /\ brakeSim' = [brakeSim EXCEPT
                       !.now = @ + BrakeIntervalMs,
                       !.speed = RoundPerMille(NewSpeed(brakeSim.speed, speedDraw))[2],
                       !.ticks = @ + 1]
    /\ UNCHANGED <<moduleVars, brakeSimFrame>>

\* Back: the page unmounts and the effect's cleanup clears the interval
UnmountBrakeSim ==
    /\ brakeSim.mounted
    /\ brakeSim' = [mounted |-> FALSE, leftAt |-> brakeSim.now]
    /\ UNCHANGED <<moduleVars, brakeSimFrame>>

InitBrakeSim ==
    /\ DashboardClosed
    /\ buffer = NotStarted
    /\ policy = NotStarted
    /\ controller = NotStarted

NextBrakeSim ==
    \/ MountBrakeSim
    \/ \E speedDraw \in SpeedDraws, brakeForce \in ForceDraws :
          BrakeDetected(speedDraw, brakeForce)
    \/ \E speedDraw \in SpeedDraws : SpeedMoves(speedDraw)
    \/ UnmountBrakeSim

SpecBrakeSim == InitBrakeSim /\ [][NextBrakeSim]_vars

-----------------------------------------------------------------------------
(* Inference pipeline: Decision Policy (design section 4.5) *)

MaxCycles == 4
MaxK == 3

Classes == <<"Normal", "Moderate", "Aggressive", "Dangerous">>
Holding == "Holding"

\* position of a class in the order of severity
Rank(c) == CHOOSE i \in 1..Len(Classes) : Classes[i] = c

\* fixed state -> severity mapping
Severity(state) ==
    CASE state = "Normal" -> "low"
      [] state = "Moderate" -> "moderate"
      [] state \in {"Aggressive", "Dangerous"} -> "high"
      [] state = Holding -> "none"

\* confidence in hundredths; the default threshold and a top probability below it
DefaultThreshold == 70
LowConfidence == 55

\* what a cycle gives the policy: a Prediction or an InferenceError
Prediction(label, confidence) ==
    [kind |-> "prediction", label |-> label, confidence |-> confidence]
InferenceError == [kind |-> "error", label |-> Holding, confidence |-> 0]

Predictions ==
    {Prediction(Classes[i], c) : i \in 1..Len(Classes), c \in {LowConfidence, DefaultThreshold}}

StaleThresholds == {1, 2}

\* the policy as configured at startup
NewPolicy(K, staleThreshold) ==
    [started |-> TRUE, K |-> K, staleThreshold |-> staleThreshold,
     threshold |-> DefaultThreshold,
     accepted |-> Holding, candidate |-> Holding, streak |-> 0, missed |-> 0,
     verdicts |-> <<>>, log |-> <<>>]

\* Confident without the threshold: every prediction counts
ConfidentAlways(p, pred) == TRUE

Confident(p, pred) == pred.confidence >= p.threshold

Verdict(state, stale) ==
    [state |-> state, severity |-> Severity(state), stale |-> stale]

\* Accept counting the predictions before this one only: one prediction late
AcceptLate(p, label) ==
    IF p.accepted = Holding \/ label = p.accepted THEN label
    ELSE IF Rank(label) > Rank(p.accepted) THEN label
    ELSE IF (IF p.candidate = label THEN p.streak ELSE 0) >= p.K THEN label
    ELSE p.accepted

\* the state the policy accepts on a confident prediction: a more severe class
\* at once, a less severe one at the K-th consecutive confident prediction of it
Accept(p, label) ==
    IF p.accepted = Holding \/ label = p.accepted THEN label
    ELSE IF Rank(label) > Rank(p.accepted) THEN label
    ELSE IF (IF p.candidate = label THEN p.streak + 1 ELSE 1) >= p.K THEN label
    ELSE p.accepted

\* the policy after a Prediction: one Verdict per Prediction
Decide(p, pred) ==
    LET accepted == IF Confident(p, pred) THEN Accept(p, pred.label) ELSE p.accepted
        pending == Confident(p, pred) /\ accepted # pred.label
    IN  [p EXCEPT !.accepted = accepted,
                  !.candidate = IF pending THEN pred.label ELSE Holding,
                  !.streak = IF ~pending THEN 0
                             ELSE IF p.candidate = pred.label THEN p.streak + 1 ELSE 1,
                  !.missed = 0,
                  !.verdicts = Append(p.verdicts, Verdict(accepted, FALSE)),
                  !.log = Append(p.log, [input |-> pred, accepted |-> accepted,
                                         missed |-> 0])]

\* Missed repeating the last Verdict without flagging it
MissedSilently(p) ==
    [p EXCEPT !.missed = p.missed + 1,
              !.verdicts = IF p.missed + 1 >= p.staleThreshold
                           THEN Append(p.verdicts, Verdict(p.accepted, FALSE))
                           ELSE p.verdicts,
              !.log = Append(p.log, [input |-> InferenceError, accepted |-> p.accepted,
                                     missed |-> p.missed + 1])]

\* the policy after an InferenceError: no new Prediction this cycle
Missed(p) ==
    [p EXCEPT !.missed = p.missed + 1,
              !.verdicts = IF p.missed + 1 >= p.staleThreshold
                           THEN Append(p.verdicts, Verdict(p.accepted, TRUE))
                           ELSE p.verdicts,
              !.log = Append(p.log, [input |-> InferenceError, accepted |-> p.accepted,
                                     missed |-> p.missed + 1])]

InitPolicy ==
    /\ DashboardClosed
    /\ buffer = NotStarted
    /\ controller = NotStarted
    /\ \E K \in 1..MaxK, staleThreshold \in StaleThresholds :
          policy = NewPolicy(K, staleThreshold)

\* a cycle whose window was classified
PolicyDecide(pred) ==
    /\ Len(policy.log) < MaxCycles
    /\ policy' = Decide(policy, pred)
    /\ UNCHANGED <<dashboardVars, buffer, controller>>

\* a cycle whose inference failed
PolicyMissed ==
    /\ Len(policy.log) < MaxCycles
    /\ policy' = Missed(policy)
    /\ UNCHANGED <<dashboardVars, buffer, controller>>

NextPolicy ==
    \/ \E pred \in Predictions : PolicyDecide(pred)
    \/ PolicyMissed

SpecPolicy == InitPolicy /\ [][NextPolicy]_vars

-----------------------------------------------------------------------------
(* Inference pipeline: Sliding Window Buffer (design section 4.2) *)

MaxN == 3

\* enough pushes for two windows of any configuration
MaxPushes == 2 * MaxN

\* max_allowed_gap, in ticks of the sample clock
MaxAllowedGap == 2

\* timestamp of a pushed sample, relative to the previous one: a regression,
\* the largest gap allowed, a gap exceeding it
Deltas == {-1, MaxAllowedGap, MaxAllowedGap + 1}

Sample(n, t) == [n |-> n, t |-> t]

\* the buffer as configured at startup: window length N, stride
NewBuffer(N, stride) ==
    [started |-> TRUE, N |-> N, stride |-> stride, maxGap |-> MaxAllowedGap,
     samples |-> <<>>, prev |-> 0, windows |-> <<>>, pushed |-> <<>>]

\* a timestamp regression or a gap exceeding max_allowed_gap
Broken(b, sample) ==
    /\ b.pushed # <<>>
    /\ \/ sample.t < b.prev
       \/ sample.t - b.prev > b.maxGap

\* Retained keeping the oldest samples of the window instead of the newest
RetainedOldest(b, window) == SubSeq(window, 1, b.N - b.stride)

\* what the ring retains after sealing: the last N - stride samples
Retained(b, window) == SubSeq(window, b.stride + 1, b.N)

\* Accumulated without the data-loss policy: the sample is appended regardless
AccumulatedAnyway(b, sample) == Append(b.samples, sample)

\* the partial window after the push: restarted on a broken timestamp
Accumulated(b, sample) ==
    IF Broken(b, sample) THEN <<sample>> ELSE Append(b.samples, sample)

\* push(Sample) -> Option<Window>: the buffer after the push; a sealed window
\* is appended to windows
Push(b, sample) ==
    LET acc == Accumulated(b, sample)
    IN  [b EXCEPT !.samples = IF Len(acc) = b.N THEN Retained(b, acc) ELSE acc,
                  !.windows = IF Len(acc) = b.N THEN Append(b.windows, acc) ELSE b.windows,
                  !.prev = sample.t,
                  !.pushed = Append(b.pushed, sample)]

InitBuffer ==
    /\ DashboardClosed
    /\ policy = NotStarted
    /\ controller = NotStarted
    /\ \E N \in 1..MaxN : \E stride \in 1..N : buffer = NewBuffer(N, stride)

BufferPush(delta) ==
    /\ Len(buffer.pushed) < MaxPushes
    /\ buffer' = Push(buffer, Sample(Len(buffer.pushed) + 1,
                                      IF buffer.pushed = <<>> THEN 0
                                      ELSE buffer.prev + delta))
    /\ UNCHANGED <<dashboardVars, policy, controller>>

NextBuffer == \E delta \in Deltas : BufferPush(delta)

SpecBuffer == InitBuffer /\ [][NextBuffer]_vars

-----------------------------------------------------------------------------
(* Inference pipeline: Stream Controller (design sections 4.6 and 5) *)

MaxTicks == 4

\* what the classifier makes of a sealed window
Outcomes ==
    {Prediction("Normal", DefaultThreshold), Prediction("Dangerous", DefaultThreshold),
     InferenceError}

\* the controller at startup: waiting for the first tick
NewController ==
    [started |-> TRUE, pc |-> "wait", stopRequested |-> FALSE, ticks |-> 0,
     emitted |-> <<>>]

\* the Verdicts a cycle emitted: those the policy has added
NewVerdicts(before, after) ==
    SubSeq(after.verdicts, Len(before.verdicts) + 1, Len(after.verdicts))

\* MayTick running a tick whenever the loop is not in one: the stop is ignored
MayTickAnyway(c) == c.pc \in {"wait", "stopped"}

\* the loop starts a tick only between ticks and only if no stop is requested
MayTick(c) == c.pc = "wait" /\ ~c.stopRequested

\* downstream emission: one event per Verdict, with the window it came from
EmittedWith(c, b, windows, verdicts) ==
    c.emitted \o [i \in 1..Len(verdicts) |->
                      [window |-> windows[1], verdict |-> verdicts[i]]]

InitController ==
    /\ DashboardClosed
    /\ \E N \in 1..MaxN : \E stride \in 1..N : buffer = NewBuffer(N, stride)
    /\ policy = NewPolicy(2, 2)
    /\ controller = NewController

\* a stop request arrives, at any point of the loop
RequestStop ==
    /\ ~controller.stopRequested
    /\ controller' = [controller EXCEPT !.stopRequested = TRUE]
    /\ UNCHANGED <<dashboardVars, buffer, policy>>

\* the tick is due and the sensor read starts
BeginTick ==
    /\ MayTick(controller)
    /\ controller.ticks < MaxTicks
    /\ controller' = [controller EXCEPT !.pc = "read"]
    /\ UNCHANGED <<dashboardVars, buffer, policy>>

\* between ticks the loop observes the stop request and ends
ObserveStop ==
    /\ controller.pc = "wait"
    /\ controller.stopRequested
    /\ controller' = [controller EXCEPT !.pc = "stopped"]
    /\ UNCHANGED <<dashboardVars, buffer, policy>>

\* the read fails or times out: nothing is pushed this tick
ReadFailed ==
    /\ controller.pc = "read"
    /\ controller' = [controller EXCEPT !.pc = "wait", !.ticks = controller.ticks + 1]
    /\ UNCHANGED <<dashboardVars, buffer, policy>>

\* the read completes: push, and if a window sealed, extract -> predict ->
\* decide -> emit
ReadCompleted(outcome) ==
    /\ controller.pc = "read"
    /\ buffer' = Push(buffer, Sample(Len(buffer.pushed) + 1, controller.ticks + 1))
    /\ LET sealed == SubSeq(buffer'.windows, Len(buffer.windows) + 1, Len(buffer'.windows))
       IN  /\ policy' = IF sealed = <<>> THEN policy
                        ELSE IF outcome.kind = "error" THEN Missed(policy)
                        ELSE Decide(policy, outcome)
           /\ controller' =
                 [controller EXCEPT
                    !.pc = "wait",
                    !.ticks = controller.ticks + 1,
                    !.emitted = EmittedWith(controller, buffer', sealed,
                                            NewVerdicts(policy, policy'))]
    /\ UNCHANGED dashboardVars

NextController ==
    \/ RequestStop
    \/ BeginTick
    \/ ObserveStop
    \/ ReadFailed
    \/ \E outcome \in Outcomes : ReadCompleted(outcome)

SpecController == InitController /\ [][NextController]_vars

-----------------------------------------------------------------------------
(* Properties *)

\* the properties of entry a that entry b has with the same value
Carries(b, a) == \A k \in DOMAIN a : Get(b, k) = a[k]

\* s without its j-th element
RemoveAt(s, j) == SubSeq(s, 1, j - 1) \o SubSeq(s, j + 1, Len(s))

\* C1 as stated: every onmessage whose data parses as JSON adds exactly one
\* entry to feedbackHistory, at the head, and leaves the rest as it was.
C1_EveryJsonMessageAdded ==
    [][(last'.op = "onmessage" /\ EventData[last'.arg].kind # "error")
         => /\ Len(feedbackHistory') = Len(feedbackHistory) + 1
            /\ Tail(feedbackHistory') = feedbackHistory]_vars

\* C1 as amended: every onmessage whose data parses as JSON to an object (not
\* to null) adds exactly one entry, at the head: the entry carries every
\* property of the message, and the entries that were there follow it unchanged
\* and in the same order.
C1_ObjectMessageAddedAtHead ==
    [][(last'.op = "onmessage" /\ EventData[last'.arg].kind = "object")
         => /\ Len(feedbackHistory') = Len(feedbackHistory) + 1
            /\ Carries(Head(feedbackHistory'), EventData[last'.arg].obj)
            /\ Tail(feedbackHistory') = feedbackHistory]_vars

C1_Witness ==
    /\ last.op = "onmessage"
    /\ EventData[last.arg].kind = "object"
    /\ nAdded = 2
    /\ Len(feedbackHistory) >= 2
    /\ Carries(feedbackHistory[1], EventData[last.arg].obj)

\* C2: deleting one entry shown on the Feedback History page removes exactly
\* that one entry: feedbackHistory afterwards is feedbackHistory before with one
\* occurrence of the entry taken out, every other entry in place.
C2_DeleteRemovesExactlyOne ==
    [][last'.op = "delete"
         => LET item == Displayed(feedbackHistory, selectedModules,
                                  selectedSeverities)[last'.arg]
            IN  \E j \in 1..Len(feedbackHistory) :
                   /\ feedbackHistory[j] = item
                   /\ feedbackHistory' = RemoveAt(feedbackHistory, j)]_vars

\* C3: after clearHistory feedbackHistory is empty, and it is empty after the
\* page loads that follow: neither the cleared entries nor the dummy data
\* come back.
C3_ClearedStaysEmpty == Cleared(last) => feedbackHistory = <<>>

C3_Witness ==
    /\ last.op = "load"
    /\ last.arg = 1
    /\ storage.has
    /\ feedbackHistory = <<>>

\* the keys the entries of the model have
Keys == UNION {DOMAIN DummyFeedback(1)[i] : i \in 1..Len(DummyFeedback(1))}
        \cup UNION {DOMAIN EventData[d].obj : d \in 1..Len(EventData)}
        \cup {"id", "timestamp", "type"}

\* C4: after every change and its persistence effect, the localStorage item
\* is there and holds the JSON of feedbackHistory, and a FeedbackProvider
\* initialised from it has the same entries in the same order (every
\* property of every entry reads the same).
C4_StorageRoundTrip ==
    LET loaded == LoadHistory(storage, clock)
    IN  /\ storage.has
        /\ storage.text = Stringify(feedbackHistory)
        /\ Len(loaded) = Len(feedbackHistory)
        /\ \A i \in 1..Len(feedbackHistory) : \A k \in Keys :
              Get(loaded[i], k) = Get(feedbackHistory[i], k)

C4_Witness ==
    /\ last.op = "delete"
    /\ nAdded > 0
    /\ Len(feedbackHistory) > 0
    /\ \E i \in 1..Len(feedbackHistory) :
          Get(feedbackHistory[i], "signalUsed") = Bool(FALSE)
    /\ LoadHistory(storage, clock) = feedbackHistory

\* C5: while isAuthenticated is false every protected route renders a
\* redirect to /login, and the page rendered is the Login page.
C5_ProtectedRoutesRedirect ==
    ~isAuthenticated
      => /\ \A url \in ProtectedRoutes : Element(url, isAuthenticated) = Redirect("/login")
         /\ Element(path, isAuthenticated) = Page("/login")

C5_Witness ==
    /\ ~isAuthenticated
    /\ last.op = "load"
    /\ last.id = Str("/feedback-history")
    /\ nAdded > 0
    /\ path = "/login"

\* C6: any login action, with any email and password, sets isAuthenticated,
\* ends on /home, and after it every protected route renders its page.
C6_AnyLoginSucceeds ==
    last.op = "login"
      => /\ isAuthenticated
         /\ path = "/home"
         /\ \A url \in ProtectedRoutes : Element(url, isAuthenticated) = Page(url)

C6_Witness ==
    /\ last.op = "login"
    /\ last.id = Str("wrong")
    /\ isAuthenticated
    /\ path = "/home"

\* C7: pressing Logout on the Home page ends the session: the Login page is
\* shown and the protected routes redirect to /login.
C7_LogoutEndsSession ==
    last.op = "logout"
      => /\ path = "/login"
         /\ \A url \in ProtectedRoutes : Element(url, isAuthenticated) = Redirect("/login")

\* how often e occurs in s
Occurrences(s, e) == Cardinality({i \in 1..Len(s) : s[i] = e})

\* C8: on the Feedback History page with all module and severity filters
\* selected, the entries displayed are exactly the entries of feedbackHistory.
C8_AllEntriesDisplayed ==
    (/\ path = "/feedback-history"
     /\ selectedModules = InitialModules
     /\ selectedSeverities = InitialSeverities)
      => /\ Len(Displayed(feedbackHistory, selectedModules, selectedSeverities))
              = Len(feedbackHistory)
         /\ \A i \in 1..Len(feedbackHistory) :
               Occurrences(Displayed(feedbackHistory, selectedModules, selectedSeverities),
                           feedbackHistory[i])
                 = Occurrences(feedbackHistory, feedbackHistory[i])

\* C9: on the Feedback History page, for every history and every filter
\* selection, Total Events is the number of entries displayed and is the sum
\* of Brake Events, Signal Events and Lane Changes.
C9_TotalIsDisplayedAndSum ==
    path = "/feedback-history"
      => LET stats == Stats(feedbackHistory, selectedModules, selectedSeverities)
         IN  /\ stats.total
                  = Len(Displayed(feedbackHistory, selectedModules, selectedSeverities))
             /\ stats.total = stats.braking + stats.signals + stats.lanes

C9_Witness ==
    /\ path = "/feedback-history"
    /\ last.op = "toggleModule"
    /\ Len(selectedModules) = 2
    /\ Len(feedbackHistory) = 2
    /\ Stats(feedbackHistory, selectedModules, selectedSeverities).total = 1

\* C10: Save All to History on the Brake Checking page adds one entry per
\* event of the live feed, and the entry saved from an event carries the
\* event's eventType, message, speed, force and severity.
C10_SaveAllKeepsFields ==
    [][last'.op = "saveAll"
         => LET events == BrakeEvents(feedbackHistory)
                n == Len(events)
            IN  /\ Len(feedbackHistory') = Len(feedbackHistory) + n
                /\ SubSeq(feedbackHistory', n + 1, Len(feedbackHistory')) = feedbackHistory
                /\ \A i \in 1..n :
                      \A k \in {"eventType", "message", "speed", "force", "severity"} :
                         Get(feedbackHistory'[n + 1 - i], k) = Get(events[i], k)]_vars

\* the cycles of the log that had a Prediction
Predicted(log) == SelectSeq(log, LAMBDA e : e.input.kind = "prediction")

\* the state reported before the i-th prediction
ReportedBefore(preds, i) == IF i = 1 THEN Holding ELSE preds[i - 1].accepted

\* the i-th prediction is the K-th of K consecutive confident predictions of its class
KthInARow(preds, i, K) ==
    /\ i >= K
    /\ \A j \in (i - K + 1)..i :
          /\ Confident(policy, preds[j].input)
          /\ preds[j].input.label = preds[i].input.label

Inputs(log) == [i \in 1..Len(log) |-> log[i].input]
Reports(log) == [i \in 1..Len(log) |-> log[i].accepted]
Sure(label) == Prediction(label, DefaultThreshold)

\* C11: with debounce count K, a confident prediction of a class more severe
\* than the reported state is accepted at once; one of a less severe class is
\* accepted exactly when it is the K-th consecutive confident prediction of
\* that class, and the previous state is reported until then. With K = 3,
\* [Dangerous, Normal, Normal, Normal] reports [Dangerous, Dangerous,
\* Dangerous, Normal] and [Normal, Dangerous] reports [Normal, Dangerous].
C11_Debounce ==
    LET preds == Predicted(policy.log)
    IN  /\ \A i \in 1..Len(preds) :
              LET label == preds[i].input.label
                  prev == ReportedBefore(preds, i)
              IN  (Confident(policy, preds[i].input) /\ prev # Holding)
                    => /\ Rank(label) > Rank(prev) => preds[i].accepted = label
                       /\ Rank(label) < Rank(prev) =>
                             preds[i].accepted =
                                IF KthInARow(preds, i, policy.K) THEN label ELSE prev
        /\ (policy.K = 3 /\ Inputs(policy.log) = <<Sure("Dangerous"), Sure("Normal"),
                                                    Sure("Normal"), Sure("Normal")>>)
              => Reports(policy.log) = <<"Dangerous", "Dangerous", "Dangerous", "Normal">>
        /\ (policy.K = 3 /\ Inputs(policy.log) = <<Sure("Normal"), Sure("Dangerous")>>)
              => Reports(policy.log) = <<"Normal", "Dangerous">>

C11_Witness ==
    /\ policy.started
    /\ policy.K = 3
    /\ Inputs(policy.log) = <<Sure("Dangerous"), Sure("Normal"), Sure("Normal"), Sure("Normal")>>
    /\ policy.accepted = "Normal"

\* the i-th cycle of the log had a prediction below the threshold
BelowThreshold(log, i) ==
    /\ log[i].input.kind = "prediction"
    /\ log[i].input.confidence < policy.threshold

\* C12: a prediction whose top-class confidence is below the threshold never
\* changes the accepted state: the state after it is the state before it, and
\* it is Holding as long as no confident prediction has been seen.
C12_LowConfidenceHolds ==
    LET log == policy.log
    IN  policy.started =>
          /\ Len(log) > 0 => policy.accepted = log[Len(log)].accepted
          /\ \A i \in 1..Len(log) :
                BelowThreshold(log, i)
                  => /\ log[i].accepted = IF i = 1 THEN Holding ELSE log[i - 1].accepted
                     /\ (\A j \in 1..i : log[j].input.kind = "error" \/ BelowThreshold(log, j))
                          => log[i].accepted = Holding

C12_Witness ==
    /\ policy.started
    /\ Len(policy.log) = 3
    /\ policy.log[1].input = Prediction("Normal", LowConfidence)
    /\ policy.log[1].accepted = Holding
    /\ policy.log[2].input = Sure("Dangerous")
    /\ policy.log[3].input = Prediction("Normal", LowConfidence)
    /\ policy.accepted = "Dangerous"

\* timestamps never regress
InOrder(samples) ==
    \A i \in 1..(Len(samples) - 1) : samples[i + 1].t >= samples[i].t

\* no two consecutive samples are further apart than max_allowed_gap
Gapless(samples) ==
    \A i \in 1..(Len(samples) - 1) : samples[i + 1].t - samples[i].t <= buffer.maxGap

\* exactly two windows of N samples each, overlapping by N - stride, distinct
TwoOverlappingWindows ==
    /\ Len(buffer.windows) = 2
    /\ Len(buffer.windows[1]) = buffer.N
    /\ Len(buffer.windows[2]) = buffer.N
    /\ SubSeq(buffer.windows[2], 1, buffer.N - buffer.stride)
          = SubSeq(buffer.windows[1], buffer.stride + 1, buffer.N)
    /\ buffer.windows[1] # buffer.windows[2]

\* C13 as stated: pushing exactly N + stride in-order samples into an empty
\* buffer yields exactly 2 sealed windows of N samples each, the second
\* starting with the last N - stride samples of the first, and no window twice.
C13_TwoWindowsInOrder ==
    (/\ buffer.started
     /\ Len(buffer.pushed) = buffer.N + buffer.stride
     /\ InOrder(buffer.pushed))
      => TwoOverlappingWindows

\* C13 as amended: the same for N + stride in-order samples of which no two
\* consecutive ones are more than max_allowed_gap apart.
C13_TwoWindowsInOrderGapless ==
    (/\ buffer.started
     /\ Len(buffer.pushed) = buffer.N + buffer.stride
     /\ InOrder(buffer.pushed)
     /\ Gapless(buffer.pushed))
      => TwoOverlappingWindows

C13_Witness ==
    /\ buffer.started
    /\ buffer.N = 3
    /\ buffer.stride = 2
    /\ Len(buffer.pushed) = 5
    /\ InOrder(buffer.pushed)
    /\ Gapless(buffer.pushed)
    /\ Len(buffer.windows) = 2
    /\ buffer.windows[2][1] = buffer.windows[1][3]

\* the last push regressed or came after an excessive gap
LastPushBroken ==
    LET n == Len(buffer.pushed)
    IN  /\ n >= 2
        /\ \/ buffer.pushed[n].t < buffer.pushed[n - 1].t
           \/ buffer.pushed[n].t - buffer.pushed[n - 1].t > buffer.maxGap

\* C14: a pushed sample whose timestamp regresses or lies more than
\* max_allowed_gap after the previous one discards the partial contents and
\* restarts accumulation with it, and no sealed window holds two consecutive
\* samples separated by a regression or by such a gap.
C14_NoWindowSpansGap ==
    buffer.started =>
      /\ \A w \in 1..Len(buffer.windows) :
            InOrder(buffer.windows[w]) /\ Gapless(buffer.windows[w])
      /\ (LastPushBroken /\ buffer.N > 1)
            => buffer.samples = <<buffer.pushed[Len(buffer.pushed)]>>

C14_Witness ==
    /\ buffer.started
    /\ buffer.N = 2
    /\ Len(buffer.pushed) = 4
    /\ InOrder(buffer.pushed)
    /\ buffer.pushed[3].t - buffer.pushed[2].t > buffer.maxGap
    /\ Len(buffer.windows) = 2
    /\ buffer.windows[2] = <<buffer.pushed[3], buffer.pushed[4]>>

\* the last n cycles of the log all had an InferenceError
EndsWithErrors(log, n) ==
    /\ Len(log) >= n
    /\ \A i \in (Len(log) - n + 1)..Len(log) : log[i].input.kind = "error"

\* C15: an InferenceError leaves the accepted state unchanged and increments
\* the missed-cycle counter, and after stale_threshold consecutive
\* InferenceErrors the Verdict emitted is flagged stale (and carries the
\* state held).
C15_StaleAfterThreshold ==
    LET log == policy.log
    IN  policy.started =>
          /\ Len(log) > 0 => policy.missed = log[Len(log)].missed
          /\ \A i \in 1..Len(log) :
                log[i].input.kind = "error"
                  => /\ log[i].accepted = IF i = 1 THEN Holding ELSE log[i - 1].accepted
                     /\ log[i].missed = (IF i = 1 THEN 0 ELSE log[i - 1].missed) + 1
          /\ EndsWithErrors(log, policy.staleThreshold)
                => /\ policy.verdicts # <<>>
                   /\ policy.verdicts[Len(policy.verdicts)] = Verdict(policy.accepted, TRUE)

C15_Witness ==
    /\ policy.started
    /\ policy.staleThreshold = 2
    /\ Inputs(policy.log) = <<Sure("Dangerous"), InferenceError, InferenceError>>
    /\ policy.missed = 2
    /\ policy.verdicts = <<Verdict("Dangerous", FALSE), Verdict("Dangerous", TRUE)>>

\* C16: a stop request takes effect between ticks: the loop observes it
\* only while waiting for a tick; once it is observed no further tick runs
\* (nothing is read, pushed, decided or emitted any more), and every Verdict
\* emitted comes from a window of exactly N samples, never from the partial
\* contents of the buffer.
C16_StopBetweenTicks ==
    [][/\ (controller.pc # "stopped" /\ controller'.pc = "stopped")
           => /\ controller.pc = "wait"
              /\ controller.stopRequested
              /\ controller'.ticks = controller.ticks
              /\ controller'.emitted = controller.emitted
              /\ buffer' = buffer
       /\ controller.pc = "stopped"
           => /\ controller'.pc = "stopped"
              /\ controller'.ticks = controller.ticks
              /\ controller'.emitted = controller.emitted
              /\ buffer' = buffer
              /\ policy' = policy
       /\ \A i \in 1..Len(controller'.emitted) :
              /\ Len(controller'.emitted[i].window) = buffer.N
              /\ \E w \in 1..Len(buffer'.windows) :
                    buffer'.windows[w] = controller'.emitted[i].window]_vars

C16_Witness ==
    /\ controller.started
    /\ controller.pc = "stopped"
    /\ buffer.N = 3
    /\ Len(buffer.windows) = 1
    /\ Len(controller.emitted) = 1
    /\ buffer.samples # <<>>
    /\ Len(buffer.samples) < buffer.N
    /\ controller.ticks < MaxTicks

\* the entries onmessage has made of the messages for module m, newest first
ReceivedFor(m) == SelectSeq(received, LAMBDA e : Get(e, "module") = Str(m))

\* the modules the messages received so far name
ModulesReceived ==
    {Get(received[i], "module")[2] :
        i \in {j \in 1..Len(received) : Truthy(Get(received[j], "module"))}}

\* C17: after any sequence of event-stream messages every per-module list of
\* moduleStates has at most 10 entries and is the most recent min(10, n) of
\* the n messages received for its module, newest first; messages without a
\* module are in no list.
C17_ModuleListsHoldLastTen ==
    /\ ModulesReceived \subseteq DOMAIN moduleStates
    /\ \A m \in DOMAIN moduleStates :
          /\ Len(moduleStates[m]) <= 10
          /\ moduleStates[m] = Slice(ReceivedFor(m), 10)

C17_Witness ==
    /\ last.op = "onmessage"
    /\ Len(ReceivedFor("Brake Checking")) = 11
    /\ Len(moduleStates["Brake Checking"]) = 10
    /\ moduleStates["Brake Checking"][1] = received[1]

\* a timeout clears the Current Detection
SignalCleared ==
    /\ signalPage.mounted /\ signalPage'.mounted
    /\ signalPage.currentSignal # Null
    /\ signalPage'.currentSignal = Null

\* C18: each detected signal stays the Current Detection for 5 seconds unless
\* a newer detection replaces it; the timeout of an earlier detection never
\* clears a later detection early.
C18_DetectionShownFiveSeconds ==
    [][SignalCleared => signalPage'.now - signalPage.shownAt >= ClearAfterMs]_vars

\* C19: no two entries of feedbackHistory have the same id.
C19_IdsAreUnique ==
    \A i, j \in 1..Len(feedbackHistory) :
        i # j => Get(feedbackHistory[i], "id") # Get(feedbackHistory[j], "id")

\* the (id, timestamp) pair of an entry
IdAndTimestamp(e) == <<Get(e, "id"), Get(e, "timestamp")>>

\* the places of a history that hold the first entry with their pair
FirstOfPair(h) ==
    {i \in 1..Len(h) : \A j \in 1..(i - 1) : IdAndTimestamp(h[j]) # IdAndTimestamp(h[i])}

\* the entries of h at the places I, in h's order
RECURSIVE EntriesAt(_, _)
EntriesAt(h, I) ==
    IF h = <<>> THEN <<>>
    ELSE (IF 1 \in I THEN <<Head(h)>> ELSE <<>>)
            \o EntriesAt(Tail(h), {i - 1 : i \in I \ {1}})

SavedBefore == IF storage.has THEN JSONParse(storage.text) ELSE <<>>

\* C20: loading the saved history keeps, for each (id, timestamp) pair, only
\* the first saved entry with that pair, in the saved order, and drops nothing
\* else; a history without two entries of the same pair is loaded unchanged.
C20_LoadKeepsFirstOfEachPair ==
    [][last'.op = "load" =>
          /\ feedbackHistory' = EntriesAt(SavedBefore, FirstOfPair(SavedBefore))
          /\ FirstOfPair(SavedBefore) = 1..Len(SavedBefore)
                => feedbackHistory' = SavedBefore]_vars

\* the message that was handled last is no valid JSON
InvalidMessage(l) == l.op = "onmessage" /\ EventData[l.arg].kind = "error"

\* C21: a message whose data is not valid JSON changes neither feedbackHistory
\* nor moduleStates nor isConnected nor connectionError, and a valid message
\* that arrives after it is still added.
C21_InvalidMessageIsSkipped ==
    [][/\ InvalidMessage(last')
          => /\ feedbackHistory' = feedbackHistory
             /\ moduleStates' = moduleStates
             /\ connection' = connection
       /\ (InvalidMessage(last) /\ last'.op = "onmessage"
              /\ EventData[last'.arg].kind = "object")
          => /\ Len(feedbackHistory') = Len(feedbackHistory) + 1
             /\ Carries(Head(feedbackHistory'), EventData[last'.arg].obj)
             /\ Tail(feedbackHistory') = feedbackHistory]_vars

C21_Witness ==
    /\ InvalidMessage(last)
    /\ connection.isConnected
    /\ Len(received) > 0
    /\ nAdded < MaxAdds

\* C22: under any interleaving of onopen, onerror, onmessage and unmount,
\* isConnected implies that connectionError is null; after onerror the state
\* is disconnected with the error text set, and after the next onopen it is
\* connected with the error cleared.
C22_ConnectedMeansNoError ==
    /\ connection.isConnected => connection.connectionError = Null
    /\ last.op = "onerror"
         => ~connection.isConnected /\ connection.connectionError = ConnectionLost
    /\ last.op = "onopen"
         => connection.isConnected /\ connection.connectionError = Null

C22_Witness ==
    /\ last.op = "onopen"
    /\ last.arg = 1
    /\ connection.isConnected
    /\ Len(received) > 0

\* the title a message gets: its eventType when it has one (a value that is
\* not empty), otherwise its module, otherwise its type, otherwise 'Event'
TitleOf(data) ==
    IF Truthy(Get(data, "eventType")) THEN data.eventType
    ELSE IF Truthy(Get(data, "module")) THEN data.module
    ELSE IF Truthy(Get(data, "type")) THEN data.type
    ELSE Str("Event")

ObjectMessageNormalized(l) ==
    l.op = "onmessage" /\ NormalizedInputs[l.arg].kind = "object"

C24_IdAndTimestampUsable ==
    \A i \in 1..Len(received) :
        /\ Get(received[i], "id") \notin {Null, Undefined}
        /\ Get(received[i], "timestamp") \notin {Null, Undefined}

\* the entry reports a speed: a Speed Monitoring entry with a speed_mph, a
\* Brake Checking entry with a speed
ReportsSpeed(e) ==
    \/ /\ Get(e, "module") = Str("Speed Monitoring")
       /\ Get(e, "speed_mph")[1] \in {"number", "tenths"}
    \/ /\ Get(e, "module") = Str("Brake Checking")
       /\ Get(e, "speed")[1] \in {"number", "tenths"}

ReportedSpeed(e) ==
    IF Get(e, "module") = Str("Speed Monitoring") THEN e.speed_mph ELSE e.speed

\* C25: the Current Speed on the Brake Checking page is the rounded speed of
\* the newest entry of feedbackHistory that reports a speed, also when that
\* speed is 0.
C25_CurrentSpeedIsNewestReported ==
    brakePage.mounted =>
        \A i \in 1..Len(feedbackHistory) :
            (/\ ReportsSpeed(feedbackHistory[i])
             /\ \A j \in 1..(i - 1) : ~ReportsSpeed(feedbackHistory[j]))
                => brakePage.speed = MathRound(ReportedSpeed(feedbackHistory[i]))

C27_TypeFollowsForce ==
    brakeSim.mounted =>
        \A i \in 1..Len(brakeSim.events) :
            LET e == brakeSim.events[i]
                brakeForce == brakeSim.drawn[i]
            IN  /\ e.type \in {Str("hard"), Str("moderate"), Str("light")}
                /\ e.type = Str("hard") <=> brakeForce > 700
                /\ e.type = Str("moderate") <=> (brakeForce > 400 /\ brakeForce <= 700)
                /\ e.type = Str("light") <=> brakeForce <= 400
                /\ e.type = Str("hard") => e.force[2] >= 70
                /\ e.type = Str("moderate") => (e.force[2] >= 40 /\ e.force[2] <= 70)
                /\ e.type = Str("light") => e.force[2] <= 40

C27_Witness ==
    /\ brakeSim.mounted
    /\ Len(brakeSim.events) = 2
    /\ brakeSim.events[1].type = Str("hard")
    /\ brakeSim.events[1].force = Num(70)
    /\ brakeSim.events[2].type = Str("moderate")
    /\ brakeSim.events[2].force = Num(70)

=============================================================================
